---- MODULE Spec2Model ----
(***************************************************************************)
(* A model of the paint grid (src/grid.py), its per-cell layer stores      *)
(* (src/layer_store.py), the undo history (src/undo.py) and the replay log *)
(* (src/replay.py).                                                        *)
(*                                                                         *)
(* Python values are modelled as tagged records: None is [kind |-> "None"],*)
(* a Layer is [kind |-> "Layer", index, name], a PaintAction is            *)
(* [kind |-> "PaintAction", steps, is_special], a bool return value is     *)
(* [kind |-> "bool", val].                                                 *)
(***************************************************************************)
EXTENDS Integers, Sequences, FiniteSets, TLC

(***************************************************************************)
(* Bounds of the model.                                                    *)
(***************************************************************************)
\* The x and y dimensions passed to Grid(draw_style, x, y).
GridW == 2
GridH == 1
\* Brush centres range from CenterMargin cells before the grid to
\* CenterMargin cells after it, on both axes.
CenterMargin == 3
\* The capacity passed to UndoTracker(capacity).
Capacity == 2
\* The capacity passed to ReplayTracker(capacity).
LogCapacity == 3
\* The capacity of the queues of an AdditiveLayerStore (2000 in the code).
AdditiveCapacity == 3

(***************************************************************************)
(* Program constants of Grid.                                              *)
(***************************************************************************)
DEFAULT_BRUSH_SIZE == 2
MAX_BRUSH == 5
MIN_BRUSH == 0

DRAW_STYLE_OPTIONS == {"SET", "ADD", "SEQUENCE"}

\* The draw_style arguments a caller may pass: the three options and one
\* string that is none of them.
DrawStyleArgs == DRAW_STYLE_OPTIONS \cup {"INVALID"}

None == [kind |-> "None"]
Bool(b) == [kind |-> "bool", val |-> b]

(***************************************************************************)
(* The layer catalog (layer_util.get_layers()): layers by ordinal, each    *)
(* with a name.  The transform functions are not needed here.              *)
(***************************************************************************)
LAYERS == <<"charlie", "alpha", "delta", "bravo">>

Layer(i) == [kind |-> "Layer", index |-> i, name |-> LAYERS[i]]

\* The layers the caller paints with.
BrushLayers == {Layer(1), Layer(2)}

Abs(n) == IF n < 0 THEN -n ELSE n

(***************************************************************************)
(* State.                                                                  *)
(***************************************************************************)
VARIABLES
    made,          \* TRUE once Grid.__init__ has returned a Grid
    draw_style,    \* the draw_style argument Grid.__init__ was given
    gx, gy,        \* Grid.x, Grid.y
    grid,          \* Grid.grid: <<i, j>> |-> the cell's LayerStore
    brush_size,    \* Grid.brush_size
    undo_stack,    \* UndoTracker.undo_stack, bottom first
    redo_stack,    \* UndoTracker.redo_stack, bottom first
    replay_queue,  \* ReplayTracker.replay_queue, head first
    op,            \* the last call made: [name, ...arguments]
    ret,           \* what the last call returned
    calls,         \* the PaintAction methods the last call invoked, in order
    addCalls,      \* <<i, j>> |-> number of add() calls the last call made on the cell
    hist,          \* history of the run (see the trackers)
    layer_store    \* a LayerStore object the caller holds by itself, or None

gridVars == <<made, draw_style, gx, gy, grid, brush_size>>
trackVars == <<undo_stack, redo_stack, replay_queue>>
ghostVars == <<op, ret, calls, addCalls, hist>>
vars == <<made, draw_style, gx, gy, grid, brush_size, undo_stack, redo_stack,
          replay_queue, op, ret, calls, addCalls, hist, layer_store>>

Cells(w, h) == (0 .. w - 1) \X (0 .. h - 1)

NoAddCalls(w, h) == [c \in Cells(w, h) |-> 0]

(***************************************************************************)
(* SetLayerStore.                                                          *)
(***************************************************************************)
\* SetLayerStore.__init__: no layer, inverts None.
SetLayerStore_init == [kind |-> "SetLayerStore", array_sorted |-> None, inverts |-> "None"]

\* Python's `not v` for v in None, True, False.
PyNot(v) == IF v = "True" THEN "False" ELSE "True"

SetLayerStore_add(store, layer) == [store EXCEPT !.array_sorted = layer]

SetLayerStore_erase_keeps(store, layer) == store
SetLayerStore_erase(store, layer) == [store EXCEPT !.array_sorted = None]

SetLayerStore_special_sets(store) == [store EXCEPT !.inverts = "True"]
SetLayerStore_special(store) == [store EXCEPT !.inverts = PyNot(@)]

\* Dispatch on the store's class.
Store_add(store, layer) == SetLayerStore_add(store, layer)
Store_erase(store, layer) == SetLayerStore_erase(store, layer)
Store_special(store) == SetLayerStore_special(store)

(***************************************************************************)
(* Grid.                                                                   *)
(***************************************************************************)
\* Grid.__init__ builds x columns of y SetLayerStore objects whatever the
\* draw_style is (the validation is commented out).
Grid_cells(style, x, y) == [c \in Cells(x, y) |-> SetLayerStore_init]

\* Whether Grid.__init__ raises for this draw_style: never, the check of
\* draw_style against DRAW_STYLE_OPTIONS is commented out.
Grid_init_raises(style) == FALSE

\* Grid.special: special() on every square.
Grid_special(g) == [c \in DOMAIN g |-> Store_special(g[c])]

\* The two tests of Grid.manhattan_distance.
InBrushStrict(x, y, i, j, brush) == Abs(x - i) + Abs(y - j) < brush
InBrush(x, y, i, j, brush) == Abs(x - i) + Abs(y - j) <= brush

InGridNoLowerBound(i, j, w, h) == i < w /\ j < h
InGrid(i, j, w, h) == (0 <= i /\ i < w) /\ (0 <= j /\ j < h)

\* Python's range(lo, hi): every integer from lo up to, not including, hi,
\* each once.
Range(lo, hi) == lo .. hi - 1

\* The nested loops of Grid.manhattan_distance,
\*   for i in range(x - brush, x + brush + 1):
\*       for j in range(y - brush, y + brush + 1):
\* visit each pair <<i, j>> of the two ranges once.  These are the pairs for
\* which both tests pass, so that self.grid[i][j].add(layer) is called (once).
manhattan_targets(x, y, brush, w, h) ==
    {p \in Range(x - brush, x + brush + 1) \X Range(y - brush, y + brush + 1) :
        InBrush(x, y, p[1], p[2], brush) /\ InGrid(p[1], p[2], w, h)}

\* k calls of add(layer) on one store.
RECURSIVE add_times(_, _, _)
add_times(store, layer, k) ==
    IF k = 0 THEN store ELSE add_times(Store_add(store, layer), layer, k - 1)

Centers(w, h) == (-CenterMargin .. w - 1 + CenterMargin) \X (-CenterMargin .. h - 1 + CenterMargin)

(***************************************************************************)
(* Grid operations.                                                        *)
(***************************************************************************)
\* Before Grid.__init__ has run there is no Grid.
NoGrid ==
    /\ made = FALSE
    /\ draw_style = "None"
    /\ gx = 0
    /\ gy = 0
    /\ grid = <<>>
    /\ brush_size = 0

\* The state Grid(style, x, y) leaves.
NewGrid(style, x, y) ==
    /\ made = TRUE
    /\ draw_style = style
    /\ gx = x
    /\ gy = y
    /\ grid = Grid_cells(style, x, y)
    /\ brush_size = DEFAULT_BRUSH_SIZE

NoTrackers ==
    /\ undo_stack = <<>>
    /\ redo_stack = <<>>
    /\ replay_queue = <<>>

NoHistory == [phase |-> "none"]

\* Grid.__init__(draw_style, x, y)
Grid_init(style, x, y) ==
    /\ ~made
    /\ ~Grid_init_raises(style)
    /\ made' = TRUE
    /\ draw_style' = style
    /\ gx' = x
    /\ gy' = y
    /\ grid' = Grid_cells(style, x, y)
    /\ brush_size' = DEFAULT_BRUSH_SIZE
    /\ op' = [name |-> "Grid"]
    /\ ret' = None
    /\ calls' = <<>>
    /\ addCalls' = NoAddCalls(x, y)
    /\ UNCHANGED <<trackVars, hist>>
    /\ UNCHANGED layer_store

increase_brush_size_unbounded(b) == b + 1
increase_brush_size_value(b) == IF b # MAX_BRUSH THEN b + 1 ELSE b
decrease_brush_size_value(b) == IF b # MIN_BRUSH THEN b - 1 ELSE b

\* Grid.increase_brush_size()
increase_brush_size ==
    /\ made
    /\ brush_size' = increase_brush_size_value(brush_size)
    /\ op' = [name |-> "increase_brush_size"]
    /\ ret' = None
    /\ calls' = <<>>
    /\ addCalls' = NoAddCalls(gx, gy)
    /\ UNCHANGED <<made, draw_style, gx, gy, grid, trackVars, hist>>
    /\ UNCHANGED layer_store

\* Grid.decrease_brush_size()
decrease_brush_size ==
    /\ made
    /\ brush_size' = decrease_brush_size_value(brush_size)
    /\ op' = [name |-> "decrease_brush_size"]
    /\ ret' = None
    /\ calls' = <<>>
    /\ addCalls' = NoAddCalls(gx, gy)
    /\ UNCHANGED <<made, draw_style, gx, gy, grid, trackVars, hist>>
    /\ UNCHANGED layer_store

\* Grid.special()
special ==
    /\ made
    /\ grid' = Grid_special(grid)
    /\ op' = [name |-> "special"]
    /\ ret' = None
    /\ calls' = <<>>
    /\ addCalls' = NoAddCalls(gx, gy)
    /\ UNCHANGED <<made, draw_style, gx, gy, brush_size, trackVars, hist>>
    /\ UNCHANGED layer_store

\* Grid.manhattan_distance(layer, x, y).  An access self.grid[i][j] with
\* <<i, j>> outside the arrays is an error; the model records such a call as
\* raised.  The bounds test of the code lets none through.
manhattan_distance(layer, x, y) ==
    /\ made
    /\ LET targets == manhattan_targets(x, y, brush_size, gx, gy)
       IN IF targets \subseteq Cells(gx, gy)
          THEN /\ addCalls' = [c \in Cells(gx, gy) |-> IF c \in targets THEN 1 ELSE 0]
               /\ grid' = [c \in Cells(gx, gy) |-> add_times(grid[c], layer, addCalls'[c])]
               /\ op' = [name |-> "manhattan_distance", layer |-> layer, x |-> x, y |-> y]
          ELSE /\ addCalls' = NoAddCalls(gx, gy)
               /\ grid' = grid
               /\ op' = [name |-> "manhattan_distance raised"]
    /\ ret' = None
    /\ calls' = <<>>
    /\ UNCHANGED <<made, draw_style, gx, gy, brush_size, trackVars, hist>>
    /\ UNCHANGED layer_store

(***************************************************************************)
(* SpecGrid: a Grid(SET, GridW, GridH) under the brush operations.         *)
(***************************************************************************)
InitGrid ==
    /\ NewGrid("SET", GridW, GridH)
    /\ NoTrackers
    /\ op = [name |-> "Grid"]
    /\ ret = None
    /\ calls = <<>>
    /\ addCalls = NoAddCalls(GridW, GridH)
    /\ hist = NoHistory
    /\ layer_store = None

NextGrid ==
    \/ increase_brush_size
    \/ decrease_brush_size
    \/ \E layer \in BrushLayers, c \in Centers(gx, gy) :
           manhattan_distance(layer, c[1], c[2])

SpecGrid == InitGrid /\ [][NextGrid]_vars

(***************************************************************************)
(* SpecNew: construction of a Grid from any draw_style argument and any    *)
(* dimensions up to GridW x GridH, then the operations that do not depend  *)
(* on the cells' contents.                                                 *)
(***************************************************************************)
InitNew ==
    /\ NoGrid
    /\ NoTrackers
    /\ op = [name |-> "none"]
    /\ ret = None
    /\ calls = <<>>
    /\ addCalls = <<>>
    /\ hist = NoHistory
    /\ layer_store = None

NextNew ==
    \/ \E style \in DrawStyleArgs, x \in 1 .. GridW, y \in 1 .. GridH :
           Grid_init(style, x, y)
    \/ increase_brush_size
    \/ decrease_brush_size
    \/ special

SpecNew == InitNew /\ [][NextNew]_vars

(***************************************************************************)
(* PaintAction (the repository's action.py, which is not among the source  *)
(* files; modelled from the specification, section 4.3).  An action is an  *)
(* ordered list of steps, each adding one layer to one cell, or a special  *)
(* action, which triggers the special effect of the whole grid.            *)
(***************************************************************************)
Step(c, layer) == [x |-> c[1], y |-> c[2], layer |-> layer]
PaintAction(steps, is_special) ==
    [kind |-> "PaintAction", steps |-> steps, is_special |-> is_special]

\* apply: add(layer) on the cell of each step, in order; special() on the
\* grid for a special action.
RECURSIVE steps_redo(_, _, _)
steps_redo(steps, g, n) ==
    IF n > Len(steps) THEN g
    ELSE steps_redo(steps,
                    [g EXCEPT ![<<steps[n].x, steps[n].y>>] = Store_add(@, steps[n].layer)],
                    n + 1)

PaintAction_redo_apply(action, g) ==
    IF action.is_special THEN Grid_special(g) ELSE steps_redo(action.steps, g, 1)

\* undo_apply: the corresponding erase(layer) for each add; special() again
\* for a special action (the toggle of a SetStore undoes itself).
RECURSIVE steps_undo(_, _, _)
steps_undo(steps, g, n) ==
    IF n > Len(steps) THEN g
    ELSE steps_undo(steps,
                    [g EXCEPT ![<<steps[n].x, steps[n].y>>] = Store_erase(@, steps[n].layer)],
                    n + 1)

PaintAction_undo_apply(action, g) ==
    IF action.is_special THEN Grid_special(g) ELSE steps_undo(action.steps, g, 1)

\* A record of one call of a PaintAction method.
Call(method, action) == [method |-> method, action |-> action]

\* The cells of a w x h grid in row-major order.
CellSeq(w, h) == [n \in 1 .. w * h |-> <<(n - 1) \div h, (n - 1) % h>>]

\* The actions the caller builds: the special action, a draw of one layer on
\* cell <<0, 0>>, and a draw of one layer on every cell.
SpecialAction == PaintAction(<<>>, TRUE)
DrawOne(c, layer) == PaintAction(<<Step(c, layer)>>, FALSE)
DrawAll(layer, w, h) == PaintAction([n \in 1 .. w * h |-> Step(CellSeq(w, h)[n], layer)], FALSE)
PaintActions(w, h) ==
    {SpecialAction}
        \cup {DrawOne(<<0, 0>>, layer) : layer \in BrushLayers}
        \cup {DrawAll(layer, w, h) : layer \in BrushLayers}

(***************************************************************************)
(* The containers of data_structures (not among the source files):         *)
(* ArrayStack and CircularQueue of a fixed capacity, modelled from the     *)
(* specification: a push or append on a full container is rejected and     *)
(* the container keeps what it held.                                       *)
(***************************************************************************)
ArrayStack_push(stack, capacity, item) ==
    IF Len(stack) < capacity THEN Append(stack, item) ELSE stack
ArrayStack_top(stack) == stack[Len(stack)]
ArrayStack_popped(stack) == SubSeq(stack, 1, Len(stack) - 1)

CircularQueue_append(queue, capacity, item) ==
    IF Len(queue) < capacity THEN Append(queue, item) ELSE queue
CircularQueue_front(queue) == Head(queue)
CircularQueue_served(queue) == Tail(queue)

(***************************************************************************)
(* UndoTracker.                                                            *)
(***************************************************************************)
\* UndoTracker.add_action: the undo stack afterwards.
UndoTracker_add_action_unguarded(stack, capacity, action) == Append(stack, action)
UndoTracker_add_action(stack, capacity, action) ==
    IF Len(stack) < capacity THEN ArrayStack_push(stack, capacity, action) ELSE stack

\* UndoTracker.undo: the undo stack and the grid afterwards, the value
\* returned and the PaintAction calls made.
UndoTracker_undo_bottom(stack, g) ==
    IF Len(stack) > 0
    THEN [undo_stack |-> Tail(stack),
          grid |-> PaintAction_undo_apply(Head(stack), g),
          ret |-> Head(stack),
          calls |-> <<Call("undo_apply", Head(stack))>>]
    ELSE [undo_stack |-> stack, grid |-> g, ret |-> None, calls |-> <<>>]
UndoTracker_undo_empty_true(stack, g) ==
    IF Len(stack) > 0
    THEN [undo_stack |-> ArrayStack_popped(stack),
          grid |-> PaintAction_undo_apply(ArrayStack_top(stack), g),
          ret |-> ArrayStack_top(stack),
          calls |-> <<Call("undo_apply", ArrayStack_top(stack))>>]
    ELSE [undo_stack |-> stack, grid |-> g, ret |-> Bool(TRUE), calls |-> <<>>]
UndoTracker_undo(stack, g) ==
    IF Len(stack) > 0
    THEN [undo_stack |-> ArrayStack_popped(stack),
          grid |-> PaintAction_undo_apply(ArrayStack_top(stack), g),
          ret |-> ArrayStack_top(stack),
          calls |-> <<Call("undo_apply", ArrayStack_top(stack))>>]
    ELSE [undo_stack |-> stack, grid |-> g, ret |-> None, calls |-> <<>>]

\* UndoTracker.redo: both stacks and the grid afterwards, the value returned
\* and the PaintAction calls made.
UndoTracker_redo(ustack, rstack, capacity, g) ==
    IF Len(rstack) = 0
    THEN [undo_stack |-> ustack, redo_stack |-> rstack, grid |-> g,
          ret |-> None, calls |-> <<>>]
    ELSE [undo_stack |-> ArrayStack_push(ustack, capacity, ArrayStack_top(rstack)),
          redo_stack |-> ArrayStack_popped(rstack),
          grid |-> PaintAction_redo_apply(ArrayStack_top(rstack), g),
          ret |-> ArrayStack_top(rstack),
          calls |-> <<Call("redo_apply", ArrayStack_top(rstack))>>]

(***************************************************************************)
(* ReplayTracker.  A tracker is [kind |-> "ReplayTracker", replay_queue,   *)
(* undo_stack, redo_stack], the last two being the stacks of its           *)
(* undo_tracker.  An entry of the queue is a PaintAction or a ReplayTracker*)
(* (the undo marker).                                                      *)
(***************************************************************************)
\* The default capacity of ReplayTracker.__init__.
DEFAULT_REPLAY_CAPACITY == 10000

ReplayTracker_init ==
    [kind |-> "ReplayTracker", replay_queue |-> <<>>, undo_stack |-> <<>>, redo_stack |-> <<>>]

\* The branch `not is_undo` of ReplayTracker.add_action.
ReplayTracker_add_direct(rt, capacity, action) ==
    [rt EXCEPT !.replay_queue = CircularQueue_append(@, capacity, action),
               !.undo_stack = UndoTracker_add_action(@, capacity, action)]

\* ReplayTracker.add_action(action, is_undo): the tracker afterwards.
ReplayTracker_add_action_raw(rt, capacity, action, is_undo) ==
    ReplayTracker_add_direct(rt, capacity, action)
ReplayTracker_add_action(rt, capacity, action, is_undo) ==
    IF ~is_undo
    THEN ReplayTracker_add_direct(rt, capacity, action)
    ELSE LET undo_marker == ReplayTracker_add_direct(ReplayTracker_init,
                                                     DEFAULT_REPLAY_CAPACITY, action)
         IN [rt EXCEPT !.undo_stack = UndoTracker_add_action(@, capacity, action),
                       !.replay_queue = CircularQueue_append(@, capacity, undo_marker)]

\* ReplayTracker.undo(grid): what self.undo_tracker.undo(grid) does and returns.
ReplayTracker_undo(rt, g) == UndoTracker_undo(rt.undo_stack, g)

\* The isinstance dispatch of ReplayTracker.play_next_action on the entry
\* served: the grid afterwards and the PaintAction calls made.
play_entry_redo_only(next_action, g) ==
    IF next_action.kind = "ReplayTracker"
    THEN [grid |-> PaintAction_redo_apply(next_action.replay_queue[1], g),
          calls |-> <<Call("redo_apply", next_action.replay_queue[1])>>]
    ELSE [grid |-> PaintAction_redo_apply(next_action, g),
          calls |-> <<Call("redo_apply", next_action)>>]
play_entry(next_action, g) ==
    IF next_action.kind = "ReplayTracker"
    THEN LET r == ReplayTracker_undo(next_action, g)
         IN [grid |-> r.grid, calls |-> r.calls]
    ELSE IF next_action.kind = "PaintAction"
         THEN [grid |-> PaintAction_redo_apply(next_action, g),
               calls |-> <<Call("redo_apply", next_action)>>]
         ELSE [grid |-> g, calls |-> <<>>]

\* ReplayTracker.play_next_action(grid): the queue and the grid afterwards,
\* the value returned and the PaintAction calls made.
ReplayTracker_play_next_action_peek(queue, g) ==
    IF Len(queue) = 0
    THEN [replay_queue |-> queue, grid |-> g, ret |-> Bool(TRUE), calls |-> <<>>]
    ELSE [replay_queue |-> queue,
          grid |-> play_entry(CircularQueue_front(queue), g).grid,
          ret |-> Bool(FALSE),
          calls |-> play_entry(CircularQueue_front(queue), g).calls]
ReplayTracker_play_next_action(queue, g) ==
    IF Len(queue) = 0
    THEN [replay_queue |-> queue, grid |-> g, ret |-> Bool(TRUE), calls |-> <<>>]
    ELSE [replay_queue |-> CircularQueue_served(queue),
          grid |-> play_entry(CircularQueue_front(queue), g).grid,
          ret |-> Bool(FALSE),
          calls |-> play_entry(CircularQueue_front(queue), g).calls]

(***************************************************************************)
(* Colours and Layer.apply (layer_util, which is not among the source      *)
(* files).  A transform is left uninterpreted: a colour is the start       *)
(* colour followed by the transforms applied to it, each with the          *)
(* arguments it received, so two colours are equal exactly when the same   *)
(* transforms were applied to the same start with the same arguments in    *)
(* the same order.                                                         *)
(***************************************************************************)
StartColor(name) == <<[start |-> name]>>

\* layer.apply(color, timestamp, x, y)
Layer_apply(layer, color, timestamp, x, y) ==
    Append(color, [layer |-> layer.index, timestamp |-> timestamp, x |-> x, y |-> y])

\* (255 - color[0], 255 - color[1], 255 - color[2])
Invert(color) == Append(color, [invert |-> TRUE])

\* The catalog as Layer objects.
AllLayers == {Layer(i) : i \in 1 .. Len(LAYERS)}

\* A call that ended in an exception.
Raised(error) == [kind |-> "raised", error |-> error]

(***************************************************************************)
(* SetLayerStore: what the methods return.                                 *)
(***************************************************************************)
SetLayerStore_add_ret == Bool(TRUE)
SetLayerStore_erase_ret == Bool(TRUE)

\* SetLayerStore.get_color(start, timestamp, x, y)
SetLayerStore_get_color_ignores_layer(store, start, timestamp, x, y) == start
SetLayerStore_get_color_never_inverts(store, start, timestamp, x, y) ==
    IF store.array_sorted # None
    THEN Layer_apply(store.array_sorted, start, timestamp, x, y)
    ELSE start
SetLayerStore_get_color(store, start, timestamp, x, y) ==
    IF store.array_sorted # None
    THEN LET color == Layer_apply(store.array_sorted, start, timestamp, x, y)
         IN IF store.inverts = "True" THEN Invert(color) ELSE color
    ELSE start

(***************************************************************************)
(* AdditiveLayerStore.  layers and temp_queue are CircularQueue objects of *)
(* capacity AdditiveCapacity, head first.  Every method yields the set of  *)
(* its possible outcomes [store, ret].                                     *)
(***************************************************************************)
AdditiveLayerStore_init ==
    [kind |-> "AdditiveLayerStore", layers |-> <<>>, temp_queue |-> <<>>]

\* AdditiveLayerStore.add(layer)
AdditiveLayerStore_add_evicts(store, layer) ==
    {[store |-> [store EXCEPT !.layers =
                     IF Len(@) < AdditiveCapacity THEN Append(@, layer)
                     ELSE Append(Tail(@), layer)],
      ret |-> Bool(TRUE)]}
AdditiveLayerStore_add(store, layer) ==
    {[store |-> [store EXCEPT !.layers = CircularQueue_append(@, AdditiveCapacity, layer)],
      ret |-> Bool(TRUE)]}

\* The loop of AdditiveLayerStore.get_color after n rounds: the colour so
\* far, and the two queues.
RECURSIVE additive_loop(_, _, _, _, _, _)
additive_loop(store, start, timestamp, x, y, n) ==
    IF n = 0
    THEN [color |-> start, layers |-> store.layers, temp_queue |-> store.temp_queue]
    ELSE LET s == additive_loop(store, start, timestamp, x, y, n - 1)
             first == CircularQueue_front(s.layers)
         IN [color |-> Layer_apply(first, s.color, timestamp, x, y),
             layers |-> CircularQueue_served(s.layers),
             temp_queue |-> CircularQueue_append(s.temp_queue, AdditiveCapacity, first)]

\* AdditiveLayerStore.get_color(start, timestamp, x, y): the loop runs once
\* per stored layer, then the two queues are swapped.
AdditiveLayerStore_get_color_drains(store, start, timestamp, x, y) ==
    LET s == additive_loop(store, start, timestamp, x, y, Len(store.layers))
    IN {[store |-> [store EXCEPT !.layers = s.layers, !.temp_queue = s.temp_queue],
         ret |-> s.color]}
AdditiveLayerStore_get_color_keeps_temp(store, start, timestamp, x, y) ==
    LET s == additive_loop(store, start, timestamp, x, y, Len(store.layers))
    IN {[store |-> [store EXCEPT !.layers = s.temp_queue, !.temp_queue = s.temp_queue],
         ret |-> s.color]}
AdditiveLayerStore_get_color(store, start, timestamp, x, y) ==
    LET s == additive_loop(store, start, timestamp, x, y, Len(store.layers))
    IN {[store |-> [store EXCEPT !.layers = s.temp_queue, !.temp_queue = s.layers],
         ret |-> s.color]}

\* CircularQueue.serve() on an empty queue is not described by the
\* specification: it may raise, or return nothing and leave the queue empty.
\* AdditiveLayerStore.erase(layer) serves without looking at the queue and
\* then returns True.
AdditiveLayerStore_erase_newest(store, layer) ==
    IF Len(store.layers) = 0
    THEN {[store |-> store, ret |-> Raised("serve from an empty queue")],
          [store |-> store, ret |-> Bool(TRUE)]}
    ELSE {[store |-> [store EXCEPT !.layers = SubSeq(@, 1, Len(@) - 1)],
           ret |-> Bool(TRUE)]}
AdditiveLayerStore_erase(store, layer) ==
    IF Len(store.layers) = 0
    THEN {[store |-> store, ret |-> Raised("serve from an empty queue")],
          [store |-> store, ret |-> Bool(TRUE)]}
    ELSE {[store |-> [store EXCEPT !.layers = CircularQueue_served(@)],
           ret |-> Bool(TRUE)]}

\* The first loop of AdditiveLayerStore.special after n rounds: the queue
\* and the stack (bottom first).
RECURSIVE special_fill(_, _)
special_fill(layers, n) ==
    IF n = 0
    THEN [layers |-> layers, STACK |-> <<>>]
    ELSE LET s == special_fill(layers, n - 1)
         IN [layers |-> CircularQueue_served(s.layers),
             STACK |-> ArrayStack_push(s.STACK, AdditiveCapacity, CircularQueue_front(s.layers))]

\* The second loop after n rounds.
RECURSIVE special_drain(_, _)
special_drain(filled, n) ==
    IF n = 0
    THEN filled
    ELSE LET s == special_drain(filled, n - 1)
         IN [layers |-> CircularQueue_append(s.layers, AdditiveCapacity, ArrayStack_top(s.STACK)),
             STACK |-> ArrayStack_popped(s.STACK)]

\* AdditiveLayerStore.special(): returns the layers queue.
AdditiveLayerStore_special_keeps_order(store) ==
    {[store |-> store, ret |-> [kind |-> "CircularQueue", items |-> store.layers]]}
AdditiveLayerStore_special(store) ==
    LET filled == special_fill(store.layers, Len(store.layers))
        s == special_drain(filled, Len(filled.STACK))
    IN {[store |-> [store EXCEPT !.layers = s.layers],
         ret |-> [kind |-> "CircularQueue", items |-> s.layers]]}

(***************************************************************************)
(* ArraySortedList of ListItem(value, key) (data_structures, not among the *)
(* source files; modelled from the contract the specification requires:    *)
(* items kept in ascending key order, access and removal by position).     *)
(* Positions and layer ordinals count from 1 here and from 0 in the code:  *)
(* position p of the model is index p - 1 of the code, Layer(i) has        *)
(* layer.index = i - 1 in the code.                                        *)
(***************************************************************************)
ListItem(value, key) == [value |-> value, key |-> key]

\* Whether delete_at_index / __getitem__ accepts the position.
ArraySortedList_has(list, p) == 1 <= p /\ p <= Len(list)

\* The list without the item at position p.
ArraySortedList_delete_at_index(list, p) ==
    [q \in 1 .. Len(list) - 1 |-> IF q < p THEN list[q] ELSE list[q + 1]]

\* list.add(item): the item goes to a position that keeps the keys
\* ascending; among items of equal key any position may be taken.
ArraySortedList_add(list, item) ==
    {[q \in 1 .. Len(list) + 1 |->
          IF q < p THEN list[q] ELSE IF q = p THEN item ELSE list[q - 1]] :
       p \in {p \in 1 .. Len(list) + 1 :
                 /\ \A q \in 1 .. p - 1 : list[q].key <= item.key
                 /\ \A q \in p .. Len(list) : item.key <= list[q].key}}

\* Python's order on the layers' names.
NameOrder == <<"alpha", "bravo", "charlie", "delta">>
NameRank(name) == CHOOSE r \in 1 .. Len(NameOrder) : NameOrder[r] = name

(***************************************************************************)
(* SequenceLayerStore.  Every method yields the set of its possible        *)
(* outcomes [store, ret].                                                  *)
(***************************************************************************)
\* SequenceLayerStore.__init__: one ListItem(False, ordinal) per layer.
SequenceLayerStore_init ==
    [kind |-> "SequenceLayerStore",
     array_sorted_list |-> [i \in 1 .. Len(LAYERS) |-> ListItem(FALSE, i)]]

\* SequenceLayerStore.add(layer): delete_at_index(layer.index), then add
\* ListItem(True, layer.index).
SequenceLayerStore_add(store, layer) ==
    IF ~ArraySortedList_has(store.array_sorted_list, layer.index)
    THEN {[store |-> store, ret |-> Raised("IndexError")]}
    ELSE {[store |-> [store EXCEPT !.array_sorted_list = added], ret |-> Bool(TRUE)] :
            added \in ArraySortedList_add(
                          ArraySortedList_delete_at_index(store.array_sorted_list, layer.index),
                          ListItem(TRUE, layer.index))}

\* SequenceLayerStore.erase(layer): delete_at_index(layer.index); nothing is
\* put back.
SequenceLayerStore_erase(store, layer) ==
    IF ~ArraySortedList_has(store.array_sorted_list, layer.index)
    THEN {[store |-> store, ret |-> Raised("IndexError")]}
    ELSE {[store |-> [store EXCEPT !.array_sorted_list =
                          ArraySortedList_delete_at_index(@, layer.index)],
           ret |-> Bool(TRUE)]}

\* The loop of SequenceLayerStore.get_color after the first n positions.  The
\* loop variable is named x: the transform receives the position, counted
\* from 0, in place of the caller's x.
RECURSIVE sequence_loop(_, _, _, _, _)
sequence_loop(list, start, timestamp, y, n) ==
    IF n = 0
    THEN start
    ELSE LET color == sequence_loop(list, start, timestamp, y, n - 1)
             layer == list[n]
         IN IF layer.value
            THEN Layer_apply(Layer(layer.key), color, timestamp, n - 1, y)
            ELSE color

\* SequenceLayerStore.get_color(start, timestamp, x, y)
SequenceLayerStore_get_color(store, start, timestamp, x, y) ==
    {[store |-> store,
      ret |-> sequence_loop(store.array_sorted_list, start, timestamp, y,
                            Len(store.array_sorted_list))]}

\* lexi_sorted_layers after the first n positions of the loop of
\* SequenceLayerStore.special: ListItem(ordinal, name) of the applied slots,
\* in the order of the names.
RECURSIVE lexi_sorted_layers(_, _)
lexi_sorted_layers(list, n) ==
    IF n = 0
    THEN <<>>
    ELSE LET lexi == lexi_sorted_layers(list, n - 1)
             cur_layer == list[n]
             layer_replace == ListItem(cur_layer.key, Layer(cur_layer.key).name)
             before == Cardinality({q \in 1 .. Len(lexi) :
                                      NameRank(lexi[q].key) < NameRank(layer_replace.key)})
         IN IF cur_layer.value
            THEN [q \in 1 .. Len(lexi) + 1 |->
                     IF q <= before THEN lexi[q]
                     ELSE IF q = before + 1 THEN layer_replace ELSE lexi[q - 1]]
            ELSE lexi

\* median_index of SequenceLayerStore.special for a list of the given length.
median_index(length) ==
    IF length % 2 = 1 THEN (length + 1) \div 2 ELSE length \div 2

\* SequenceLayerStore.special(): the slot at the position that is the median
\* layer's ordinal is deleted; nothing is put back.  With no applied layer
\* the code asks lexi_sorted_layers for position -1.
SequenceLayerStore_special(store) ==
    LET list == store.array_sorted_list
        lexi == lexi_sorted_layers(list, Len(list))
    IN IF ~ArraySortedList_has(lexi, median_index(Len(lexi)))
       THEN {[store |-> store, ret |-> Raised("IndexError")]}
       ELSE LET index == Layer(lexi[median_index(Len(lexi))].value).index
            IN IF ~ArraySortedList_has(list, index)
               THEN {[store |-> store, ret |-> Raised("IndexError")]}
               ELSE {[store |-> [store EXCEPT !.array_sorted_list =
                                     ArraySortedList_delete_at_index(list, index)],
                      ret |-> None]}

(***************************************************************************)
(* Dispatch of the LayerStore methods on the object's class.               *)
(***************************************************************************)
LayerStore_add(store, layer) ==
    CASE store.kind = "SetLayerStore" ->
             {[store |-> SetLayerStore_add(store, layer), ret |-> SetLayerStore_add_ret]}
      [] store.kind = "AdditiveLayerStore" -> AdditiveLayerStore_add(store, layer)
      [] store.kind = "SequenceLayerStore" -> SequenceLayerStore_add(store, layer)

LayerStore_erase(store, layer) ==
    CASE store.kind = "SetLayerStore" ->
             {[store |-> SetLayerStore_erase(store, layer), ret |-> SetLayerStore_erase_ret]}
      [] store.kind = "AdditiveLayerStore" -> AdditiveLayerStore_erase(store, layer)
      [] store.kind = "SequenceLayerStore" -> SequenceLayerStore_erase(store, layer)

LayerStore_special(store) ==
    CASE store.kind = "SetLayerStore" ->
             {[store |-> SetLayerStore_special(store), ret |-> None]}
      [] store.kind = "AdditiveLayerStore" -> AdditiveLayerStore_special(store)
      [] store.kind = "SequenceLayerStore" -> SequenceLayerStore_special(store)

LayerStore_get_color(store, start, timestamp, x, y) ==
    CASE store.kind = "SetLayerStore" ->
             {[store |-> store, ret |-> SetLayerStore_get_color(store, start, timestamp, x, y)]}
      [] store.kind = "AdditiveLayerStore" ->
             AdditiveLayerStore_get_color(store, start, timestamp, x, y)
      [] store.kind = "SequenceLayerStore" ->
             SequenceLayerStore_get_color(store, start, timestamp, x, y)

(***************************************************************************)
(* History variable.  hist records, for the run so far, what the claims    *)
(* about sequences of calls speak of.  It never influences the program     *)
(* state.  Its mode is fixed by the initial state:                         *)
(*   "undo":   the add_action arguments while only add_action has been     *)
(*             called on the tracker (phase "adding"), then the values the *)
(*             undo calls that follow returned and the actions they        *)
(*             undid, up to the first None (phase "undoing"); any other    *)
(*             order of calls ends the record (phase "mixed");             *)
(*   "paint":  the grid before the latest apply(a) (stage 1), kept while   *)
(*             add_action(a) stores a (stage 2) and undo() then undoes it  *)
(*             (stage 3);                                                  *)
(*   "replay": the entries appended to the log, in order, the number of    *)
(*             entries played and the number of add_action calls.          *)
(***************************************************************************)
\* The add_action calls recorded in a run: one more than the capacity.
MaxAdds == Capacity + 1

UndoHistInit ==
    [mode |-> "undo", phase |-> "adding", adds |-> <<>>, rets |-> <<>>, undone |-> <<>>]
UndoHistMixed ==
    [mode |-> "undo", phase |-> "mixed", adds |-> <<>>, rets |-> <<>>, undone |-> <<>>]
PaintHistIdle ==
    [mode |-> "paint", stage |-> 0, action |-> SpecialAction, before |-> <<>>]
ReplayHistInit ==
    [mode |-> "replay", recorded |-> <<>>, played |-> 0, nadds |-> 0]

\* The add_action calls a run makes on a ReplayTracker: one more than its
\* capacity.
MaxRecords == LogCapacity + 1

Hist_apply(h, action, g) ==
    CASE h.mode = "paint" -> [mode |-> "paint", stage |-> 1, action |-> action, before |-> g]
      [] OTHER -> h

Hist_add_action(h, action, stored) ==
    CASE h.mode = "undo" ->
             IF h.phase = "adding" /\ Len(h.adds) < MaxAdds
             THEN [h EXCEPT !.adds = Append(@, action)]
             ELSE UndoHistMixed
      [] h.mode = "paint" ->
             IF h.stage = 1 /\ h.action = action /\ stored
             THEN [h EXCEPT !.stage = 2]
             ELSE PaintHistIdle
      [] OTHER -> h

Hist_undo(h, r) ==
    CASE h.mode = "undo" ->
             IF h.phase \in {"adding", "undoing"}
                /\ (h.rets = <<>> \/ h.rets[Len(h.rets)] # None)
             THEN [h EXCEPT !.phase = "undoing",
                            !.rets = Append(@, r.ret),
                            !.undone = @ \o [k \in 1 .. Len(r.calls) |-> r.calls[k].action]]
             ELSE UndoHistMixed
      [] h.mode = "paint" ->
             IF h.stage = 2 THEN [h EXCEPT !.stage = 3] ELSE PaintHistIdle
      [] OTHER -> h

\* ReplayTracker.add_action(action, is_undo); appended: the log took the entry.
Hist_record(h, action, is_undo, appended) ==
    CASE h.mode = "replay" ->
             [h EXCEPT !.nadds = @ + 1,
                       !.recorded = IF appended
                                    THEN Append(@, [action |-> action, is_undo |-> is_undo])
                                    ELSE @]
      [] OTHER -> h

\* ReplayTracker.play_next_action(grid) returning r.ret.
Hist_play(h, r) ==
    CASE h.mode = "replay" ->
             IF r.ret = Bool(FALSE) THEN [h EXCEPT !.played = @ + 1] ELSE h
      [] OTHER -> h

Hist_redo(h) ==
    CASE h.mode = "undo" -> UndoHistMixed
      [] h.mode = "paint" -> PaintHistIdle
      [] OTHER -> h

(***************************************************************************)
(* Operations on an UndoTracker(Capacity) and the grid it works on.        *)
(***************************************************************************)
\* PaintAction.apply(grid), by the caller, at the creation of the action.
apply(action) ==
    /\ made
    /\ grid' = PaintAction_redo_apply(action, grid)
    /\ op' = [name |-> "apply"]
    /\ ret' = None
    /\ calls' = <<>>
    /\ hist' = Hist_apply(hist, action, grid)
    /\ UNCHANGED <<made, draw_style, gx, gy, brush_size, trackVars, addCalls>>
    /\ UNCHANGED layer_store

\* UndoTracker.add_action(action)
add_action(action) ==
    /\ undo_stack' = UndoTracker_add_action(undo_stack, Capacity, action)
    /\ op' = [name |-> "add_action", action |-> action]
    /\ ret' = None
    /\ calls' = <<>>
    /\ hist' = Hist_add_action(hist, action, Len(undo_stack) < Capacity)
    /\ UNCHANGED <<gridVars, redo_stack, replay_queue, addCalls>>
    /\ UNCHANGED layer_store

\* UndoTracker.undo(grid)
undo_pushes_redo ==
    /\ made
    /\ LET r == UndoTracker_undo(undo_stack, grid)
       IN /\ undo_stack' = r.undo_stack
          /\ redo_stack' = IF r.ret = None THEN redo_stack
                           ELSE ArrayStack_push(redo_stack, Capacity, r.ret)
          /\ grid' = r.grid
          /\ ret' = r.ret
          /\ calls' = r.calls
          /\ hist' = Hist_undo(hist, r)
    /\ op' = [name |-> "undo"]
    /\ UNCHANGED <<made, draw_style, gx, gy, brush_size, replay_queue, addCalls>>
    /\ UNCHANGED layer_store

undo ==
    /\ made
    /\ LET r == UndoTracker_undo(undo_stack, grid)
       IN /\ undo_stack' = r.undo_stack
          /\ grid' = r.grid
          /\ ret' = r.ret
          /\ calls' = r.calls
          /\ hist' = Hist_undo(hist, r)
    /\ op' = [name |-> "undo"]
    /\ UNCHANGED <<made, draw_style, gx, gy, brush_size, redo_stack, replay_queue, addCalls>>
    /\ UNCHANGED layer_store

\* UndoTracker.redo(grid)
redo ==
    /\ made
    /\ LET r == UndoTracker_redo(undo_stack, redo_stack, Capacity, grid)
       IN /\ undo_stack' = r.undo_stack
          /\ redo_stack' = r.redo_stack
          /\ grid' = r.grid
          /\ ret' = r.ret
          /\ calls' = r.calls
    /\ op' = [name |-> "redo"]
    /\ hist' = Hist_redo(hist)
    /\ UNCHANGED <<made, draw_style, gx, gy, brush_size, replay_queue, addCalls>>
    /\ UNCHANGED layer_store

(***************************************************************************)
(* SpecUndo: an UndoTracker(Capacity) and a Grid(SET, GridW, GridH); the   *)
(* caller applies actions to the grid, adds actions to the tracker, undoes *)
(* and redoes, in any order.  SpecUndoPaint is the same system with the    *)
(* history variable in its "paint" mode.                                   *)
(***************************************************************************)
InitTracker(h) ==
    /\ NewGrid("SET", GridW, GridH)
    /\ NoTrackers
    /\ op = [name |-> "UndoTracker"]
    /\ ret = None
    /\ calls = <<>>
    /\ addCalls = NoAddCalls(GridW, GridH)
    /\ hist = h
    /\ layer_store = None

InitUndo == InitTracker(UndoHistInit)
InitUndoPaint == InitTracker(PaintHistIdle)

NextUndo ==
    \/ \E action \in PaintActions(gx, gy) : apply(action)
    \/ \E action \in PaintActions(gx, gy) : add_action(action)
    \/ undo
    \/ redo

SpecUndo == InitUndo /\ [][NextUndo]_vars
SpecUndoPaint == InitUndoPaint /\ [][NextUndo]_vars

(***************************************************************************)
(* Operations on a ReplayTracker(LogCapacity) and the grid it plays on.    *)
(* undo_stack and redo_stack are the stacks of its undo_tracker.           *)
(***************************************************************************)
\* ReplayTracker.add_action(action, is_undo)
rt_add_action(action, is_undo) ==
    /\ hist.mode = "replay" => hist.nadds < MaxRecords
    /\ LET rt == [kind |-> "ReplayTracker", replay_queue |-> replay_queue,
                  undo_stack |-> undo_stack, redo_stack |-> redo_stack]
           r == ReplayTracker_add_action(rt, LogCapacity, action, is_undo)
       IN /\ replay_queue' = r.replay_queue
          /\ undo_stack' = r.undo_stack
          /\ redo_stack' = r.redo_stack
          /\ hist' = Hist_record(hist, action, is_undo,
                                 Len(r.replay_queue) > Len(replay_queue))
    /\ op' = [name |-> "rt_add_action", action |-> action, is_undo |-> is_undo]
    /\ ret' = None
    /\ calls' = <<>>
    /\ UNCHANGED <<gridVars, addCalls>>
    /\ UNCHANGED layer_store

\* ReplayTracker.start_replay(): pass.
start_replay ==
    /\ op' = [name |-> "start_replay"]
    /\ ret' = None
    /\ calls' = <<>>
    /\ UNCHANGED <<gridVars, trackVars, addCalls, hist>>
    /\ UNCHANGED layer_store

\* ReplayTracker.play_next_action(grid)
play_next_action_undoes_own ==
    /\ made
    /\ LET r == ReplayTracker_play_next_action(replay_queue, grid)
       IN /\ replay_queue' = r.replay_queue
          /\ grid' = r.grid
          /\ ret' = r.ret
          /\ calls' = r.calls
          /\ hist' = Hist_play(hist, r)
          /\ undo_stack' = IF Len(r.calls) = 1 /\ r.calls[1].method = "undo_apply"
                               /\ Len(undo_stack) > 0
                           THEN ArrayStack_popped(undo_stack)
                           ELSE undo_stack
    /\ op' = [name |-> "play_next_action"]
    /\ UNCHANGED <<made, draw_style, gx, gy, brush_size, redo_stack, addCalls>>
    /\ UNCHANGED layer_store

play_next_action ==
    /\ made
    /\ LET r == ReplayTracker_play_next_action(replay_queue, grid)
       IN /\ replay_queue' = r.replay_queue
          /\ grid' = r.grid
          /\ ret' = r.ret
          /\ calls' = r.calls
          /\ hist' = Hist_play(hist, r)
    /\ op' = [name |-> "play_next_action"]
    /\ UNCHANGED <<made, draw_style, gx, gy, brush_size, undo_stack, redo_stack, addCalls>>
    /\ UNCHANGED layer_store

\* ReplayTracker.undo(grid)
rt_undo ==
    /\ made
    /\ LET rt == [kind |-> "ReplayTracker", replay_queue |-> replay_queue,
                  undo_stack |-> undo_stack, redo_stack |-> redo_stack]
           r == ReplayTracker_undo(rt, grid)
       IN /\ undo_stack' = r.undo_stack
          /\ grid' = r.grid
          /\ ret' = r.ret
          /\ calls' = r.calls
    /\ op' = [name |-> "rt_undo"]
    /\ UNCHANGED <<made, draw_style, gx, gy, brush_size, redo_stack, replay_queue,
                   addCalls, hist>>
    /\ UNCHANGED layer_store

(***************************************************************************)
(* SpecReplay: a ReplayTracker(LogCapacity) and a Grid(SET, GridW, GridH); *)
(* the caller records actions and undo markers, plays the log and undoes,  *)
(* in any order.                                                           *)
(***************************************************************************)
\* The actions the caller records.
ReplayActions(w, h) == {DrawOne(<<0, 0>>, Layer(1)), DrawAll(Layer(2), w, h)}

InitReplay ==
    /\ NewGrid("SET", GridW, GridH)
    /\ NoTrackers
    /\ op = [name |-> "ReplayTracker"]
    /\ ret = None
    /\ calls = <<>>
    /\ addCalls = NoAddCalls(GridW, GridH)
    /\ hist = ReplayHistInit
    /\ layer_store = None

NextReplay ==
    \/ \E action \in ReplayActions(gx, gy), is_undo \in BOOLEAN :
           rt_add_action(action, is_undo)
    \/ start_replay
    \/ play_next_action
    \/ rt_undo

SpecReplay == InitReplay /\ [][NextReplay]_vars

(***************************************************************************)
(* Operations on a LayerStore object the caller holds by itself.           *)
(***************************************************************************)
\* The arguments the caller passes to get_color.
Starts == {StartColor("start")}
Timestamps == {1, 2}
Xs == {0, 7}
Ys == {3}

\* The history at the construction of a store.
StoreHistInit ==
    [mode |-> "store", before |-> None, prev |-> [name |-> "none"], before2 |-> None]
EditsHistInit == [mode |-> "edits", last |-> [i \in 1 .. Len(LAYERS) |-> "none"]]

\* A LayerStore method was called on the store `before`; name and layer are
\* the method and, for add and erase, the layer passed.  In mode "store" the
\* history keeps the store before the call, the call made before this one
\* (prev) and the store before that one (before2).
Hist_store(h, before, name, layer) ==
    CASE h.mode = "store" -> [h EXCEPT !.before = before, !.prev = op, !.before2 = h.before]
      [] h.mode = "edits" ->
             IF name \in {"add", "erase"}
             THEN [h EXCEPT !.last[layer.index] = name]
             ELSE h
      [] OTHER -> h

\* One call: one of the outcomes the method has on the store.
store_call(outcomes, call, layer) ==
    /\ layer_store # None
    /\ \E r \in outcomes :
           /\ layer_store' = r.store
           /\ ret' = r.ret
    /\ op' = call
    /\ hist' = Hist_store(hist, layer_store, call.name, layer)
    /\ calls' = <<>>
    /\ UNCHANGED <<gridVars, trackVars, addCalls>>

\* layer_store.add(layer)
store_add(layer) ==
    /\ layer_store # None
    /\ store_call(LayerStore_add(layer_store, layer),
                  [name |-> "add", layer |-> layer], layer)

\* layer_store.erase(layer)
store_erase(layer) ==
    /\ layer_store # None
    /\ store_call(LayerStore_erase(layer_store, layer),
                  [name |-> "erase", layer |-> layer], layer)

\* layer_store.special()
store_special ==
    /\ layer_store # None
    /\ store_call(LayerStore_special(layer_store), [name |-> "special"], None)

\* layer_store.get_color(start, timestamp, x, y)
store_get_color(start, timestamp, x, y) ==
    /\ layer_store # None
    /\ store_call(LayerStore_get_color(layer_store, start, timestamp, x, y),
                  [name |-> "get_color", start |-> start, timestamp |-> timestamp,
                   x |-> x, y |-> y], None)

(***************************************************************************)
(* SpecStore: a store of any of the three classes, just constructed, under *)
(* any sequence of add, erase, special and get_color calls.                *)
(***************************************************************************)
InitStoreWith(stores, h) ==
    /\ NoGrid
    /\ NoTrackers
    /\ layer_store \in stores
    /\ op = [name |-> "LayerStore"]
    /\ ret = None
    /\ calls = <<>>
    /\ addCalls = <<>>
    /\ hist = h

InitStore ==
    InitStoreWith({SetLayerStore_init, AdditiveLayerStore_init, SequenceLayerStore_init},
                  StoreHistInit)

NextStore ==
    \/ \E layer \in AllLayers : store_add(layer)
    \/ \E layer \in AllLayers : store_erase(layer)
    \/ store_special
    \/ \E start \in Starts, timestamp \in Timestamps, x \in Xs, y \in Ys :
           store_get_color(start, timestamp, x, y)

SpecStore == InitStore /\ [][NextStore]_vars

(***************************************************************************)
(* SpecSequenceEdits: a SequenceLayerStore under add, erase and get_color  *)
(* calls only; hist.last is the most recent of add and erase called with   *)
(* each layer.                                                             *)
(***************************************************************************)
InitSequenceEdits == InitStoreWith({SequenceLayerStore_init}, EditsHistInit)

NextSequenceEdits ==
    \/ \E layer \in AllLayers : store_add(layer)
    \/ \E layer \in AllLayers : store_erase(layer)
    \/ \E start \in Starts, timestamp \in Timestamps, x \in Xs, y \in Ys :
           store_get_color(start, timestamp, x, y)

SpecSequenceEdits == InitSequenceEdits /\ [][NextSequenceEdits]_vars

(***************************************************************************)
(* C1.  Capacity of the undo history.                                      *)
(***************************************************************************)
Min(a, b) == IF a < b THEN a ELSE b
Reverse(seq) == [k \in 1 .. Len(seq) |-> seq[Len(seq) + 1 - k]]

\* C1: after n add_action calls with no undo in between, the undo stack of
\* an UndoTracker of capacity C holds exactly the first min(n, C) actions
\* added (the later ones were dropped); the undo() calls that follow return
\* the retained actions in reverse insertion order, undo_apply being called
\* once on each as it is returned, and then undo() returns None.
C1_UndoKeepsFirstCapacity ==
    hist.mode = "undo" =>
        LET kept == SubSeq(hist.adds, 1, Min(Len(hist.adds), Capacity))
            popped == Min(Len(hist.rets), Len(kept))
        IN /\ hist.phase = "adding" => undo_stack = kept
           /\ hist.phase = "undoing" =>
                  /\ undo_stack = SubSeq(kept, 1, Len(kept) - popped)
                  /\ hist.undone = SubSeq(Reverse(kept), 1, popped)
                  /\ hist.rets = SubSeq(Reverse(kept), 1, popped)
                                     \o (IF Len(hist.rets) > Len(kept) THEN <<None>> ELSE <<>>)

\* Capacity + 1 actions were added, the first two different; the undo calls
\* returned Capacity actions and then None.
C1_Witness ==
    /\ hist.mode = "undo"
    /\ hist.phase = "undoing"
    /\ Len(hist.adds) = Capacity + 1
    /\ hist.adds[1] # hist.adds[2]
    /\ Len(hist.undone) = Capacity
    /\ Len(hist.rets) = Capacity + 1
    /\ hist.rets[Capacity + 1] = None

(***************************************************************************)
(* C5.  undo on an empty history.                                          *)
(***************************************************************************)
\* C5: UndoTracker.undo(grid) on an empty undo stack returns None and leaves
\* the grid, the undo stack and the redo stack unchanged (and calls no
\* PaintAction method).
C5_UndoOnEmptyIsNoOp ==
    [][(op'.name = "undo" /\ undo_stack = <<>>) =>
           /\ ret' = None
           /\ calls' = <<>>
           /\ grid' = grid
           /\ undo_stack' = <<>>
           /\ redo_stack' = redo_stack]_vars

\* undo() has returned None on an empty stack, over a grid that holds paint.
C5_Witness ==
    /\ op.name = "undo"
    /\ ret = None
    /\ undo_stack = <<>>
    /\ \E c \in Cells(gx, gy) : grid[c].array_sorted # None

(***************************************************************************)
(* C7.  apply followed by undo, for a draw.                                *)
(***************************************************************************)
\* The cells a draw action touches.
Touched(action) ==
    {<<action.steps[n].x, action.steps[n].y>> : n \in 1 .. Len(action.steps)}

\* The run just made apply(a); add_action(a); undo() for a draw action a.
DrawUndone ==
    /\ hist.mode = "paint"
    /\ hist.stage = 3
    /\ ~hist.action.is_special

\* C7 as claimed: for a draw whose operations are all adds, apply followed
\* by undo restores every touched cell's store to its state before apply,
\* whatever the store held.
C7_UndoRestoresTouchedCells ==
    DrawUndone => \A c \in Touched(hist.action) : grid[c] = hist.before[c]

\* C7 as amended: on a grid of SetStore cells, apply followed by undo leaves
\* every touched cell with no active layer and its inversion flag as it was
\* (so a touched cell is restored exactly when it had no active layer
\* before apply), and leaves every other cell as it was.
C7_UndoClearsTouchedCells ==
    DrawUndone =>
        \A c \in Cells(gx, gy) :
            IF c \in Touched(hist.action)
            THEN /\ grid[c].array_sorted = None
                 /\ grid[c].inverts = hist.before[c].inverts
                 /\ (grid[c] = hist.before[c]) <=> (hist.before[c].array_sorted = None)
            ELSE grid[c] = hist.before[c]

\* A draw over several cells was applied and undone; one of the cells held a
\* layer before and another held none.
C7_Witness ==
    /\ DrawUndone
    /\ ret = hist.action
    /\ \E c, d \in Touched(hist.action) :
           /\ hist.before[c].array_sorted # None
           /\ hist.before[d].array_sorted = None

(***************************************************************************)
(* C8.  The brush stamp.                                                   *)
(***************************************************************************)
\* The cells the spec's apply_brush is to touch: the in-bounds cells within
\* Manhattan distance b of the centre <<x, y>>.
Diamond(x, y, b, w, h) ==
    {c \in Cells(w, h) : Abs(c[1] - x) + Abs(c[2] - y) <= b}

\* C8: for every brush size in 0..5 and every centre, a brush stamp
\* (Grid.manhattan_distance) raises no error, calls add(layer) exactly once
\* on each in-bounds cell within Manhattan distance brush_size of the centre,
\* calls it on no other cell, and leaves every other cell's store unchanged.
C8_BrushStampsExactlyTheDiamond ==
    [][op'.name \in {"manhattan_distance", "manhattan_distance raised"} =>
           /\ op'.name = "manhattan_distance"
           /\ \A c \in Cells(gx, gy) :
                  IF c \in Diamond(op'.x, op'.y, brush_size, gx, gy)
                  THEN addCalls'[c] = 1 /\ grid'[c] = Store_add(grid[c], op'.layer)
                  ELSE addCalls'[c] = 0 /\ grid'[c] = grid[c]]_vars

\* A stamp at the largest brush size that touched one cell and skipped
\* another: its centre lies outside the grid, so offsets were filtered and a
\* cell beyond distance 5 was left alone.
C8_Witness ==
    /\ op.name = "manhattan_distance"
    /\ brush_size = MAX_BRUSH
    /\ ~InGrid(op.x, op.y, gx, gy)
    /\ \E c, d \in Cells(gx, gy) :
           /\ addCalls[c] = 1
           /\ addCalls[d] = 0
           /\ grid[c].array_sorted # None
           /\ grid[d].array_sorted = None

(***************************************************************************)
(* C9.  The brush size.                                                    *)
(***************************************************************************)
\* C9: a new Grid has brush_size 2; brush_size stays within 0..5;
\* increase_brush_size at 5 and decrease_brush_size at 0 change nothing, and
\* otherwise each call changes brush_size by exactly 1.
C9_BrushSizeSaturates ==
    /\ [](made => brush_size \in 0 .. 5)
    /\ [][/\ op'.name = "Grid" => brush_size' = 2
          /\ op'.name = "increase_brush_size" =>
                 brush_size' = IF brush_size = 5 THEN 5 ELSE brush_size + 1
          /\ op'.name = "decrease_brush_size" =>
                 brush_size' = IF brush_size = 0 THEN 0 ELSE brush_size - 1]_vars

\* increase_brush_size has returned with the brush at its maximum.
C9_Witness ==
    /\ made
    /\ op.name = "increase_brush_size"
    /\ brush_size = MAX_BRUSH

(***************************************************************************)
(* C10.  Construction with an invalid draw_style.                          *)
(***************************************************************************)
\* C10: constructing a Grid with a draw_style that is not one of SET, ADD,
\* SEQUENCE fails at construction: every Grid that exists was built from one
\* of the three options.
C10_InvalidStyleFailsConstruction ==
    made => draw_style \in {"SET", "ADD", "SEQUENCE"}

(***************************************************************************)
(* C2.  Replay plays the log first in, first out.                          *)
(***************************************************************************)
\* What playing the k-th recorded entry has to do: the PaintAction call.
ExpectedCall(e) ==
    Call(IF e.is_undo THEN "undo_apply" ELSE "redo_apply", e.action)
\* ... and the grid it leaves.
ExpectedGrid(e, g) ==
    IF e.is_undo THEN PaintAction_undo_apply(e.action, g)
                 ELSE PaintAction_redo_apply(e.action, g)

\* C2: the k-th play_next_action call that finds an entry plays the k-th
\* entry the log took: an action recorded directly is applied forward
\* (redo_apply), an undo marker undoes the action it wraps (undo_apply), and
\* the call returns False; once every recorded entry has been played the call
\* returns True and does nothing to the grid.
C2_ReplayIsFifo ==
    [][op'.name = "play_next_action" =>
          IF hist.played < Len(hist.recorded)
          THEN LET e == hist.recorded[hist.played + 1]
               IN /\ ret' = Bool(FALSE)
                  /\ calls' = <<ExpectedCall(e)>>
                  /\ grid' = ExpectedGrid(e, grid)
                  /\ hist'.played = hist.played + 1
          ELSE /\ ret' = Bool(TRUE)
               /\ calls' = <<>>
               /\ grid' = grid]_vars

\* The log [A, B, undo marker of B] was recorded and played to the end: the
\* call after the third entry reports that the log is exhausted.
C2_Witness ==
    /\ hist.mode = "replay"
    /\ Len(hist.recorded) = 3
    /\ hist.nadds = 3
    /\ ~hist.recorded[1].is_undo
    /\ ~hist.recorded[2].is_undo
    /\ hist.recorded[3].is_undo
    /\ hist.recorded[1].action # hist.recorded[2].action
    /\ hist.recorded[3].action = hist.recorded[2].action
    /\ hist.played = 3
    /\ op.name = "play_next_action"
    /\ ret = Bool(TRUE)

(***************************************************************************)
(* C3.  One play_next_action call consumes exactly the head of the log.    *)
(***************************************************************************)
\* The action an entry of the log is about.
EntryAction(e) == IF e.kind = "ReplayTracker" THEN e.replay_queue[1] ELSE e

\* C3: play_next_action on a non-empty log removes the head entry and no
\* other, makes one PaintAction call, on that entry's action, and leaves the
\* grid that call leaves; on an empty log it returns True and changes neither
\* the log nor the grid.
C3_PlayConsumesExactlyTheHead ==
    [][op'.name = "play_next_action" =>
          IF replay_queue = <<>>
          THEN /\ ret' = Bool(TRUE)
               /\ replay_queue' = replay_queue
               /\ grid' = grid
               /\ calls' = <<>>
          ELSE /\ ret' = Bool(FALSE)
               /\ replay_queue' = Tail(replay_queue)
               /\ Len(calls') = 1
               /\ calls'[1].action = EntryAction(Head(replay_queue))
               /\ grid' = IF calls'[1].method = "undo_apply"
                          THEN PaintAction_undo_apply(calls'[1].action, grid)
                          ELSE PaintAction_redo_apply(calls'[1].action, grid)]_vars

\* A call has played the head of a log of three entries: two are left.
C3_Witness ==
    /\ op.name = "play_next_action"
    /\ ret = Bool(FALSE)
    /\ hist.mode = "replay"
    /\ hist.played = 1
    /\ Len(hist.recorded) = 3
    /\ Len(replay_queue) = 2
    /\ Len(calls) = 1

(***************************************************************************)
(* C4.  ReplayTracker.add_action records one entry.                        *)
(***************************************************************************)
\* What add_action(a, is_undo) has to leave, given the log and the stack of
\* the internal UndoTracker before: the log one entry longer, the new entry
\* last (a itself, or an undo marker wrapping a), and a handed to
\* UndoTracker.add_action.
Recorded(action, is_undo, queue, queue2, stack, stack2) ==
    /\ Len(queue2) = Len(queue) + 1
    /\ SubSeq(queue2, 1, Len(queue)) = queue
    /\ LET last == queue2[Len(queue2)]
       IN IF is_undo
          THEN /\ last.kind = "ReplayTracker"
               /\ last # action
               /\ last.undo_stack = <<action>>
          ELSE last = action
    /\ stack2 = UndoTracker_add_action(stack, LogCapacity, action)

\* C4 as stated: every add_action call records one entry.
C4_AddActionAlwaysGrowsLog ==
    [][op'.name = "rt_add_action" =>
          Recorded(op'.action, op'.is_undo, replay_queue, replay_queue',
                   undo_stack, undo_stack')]_vars

\* C4: while the log holds fewer entries than its capacity, add_action(a,
\* is_undo) appends exactly one entry at the end of the log, a itself when
\* is_undo is false and an undo marker wrapping a when it is true, and in both
\* cases hands a to the internal UndoTracker's add_action.
C4_AddActionGrowsLogBelowCapacity ==
    [][(op'.name = "rt_add_action" /\ Len(replay_queue) < LogCapacity) =>
          Recorded(op'.action, op'.is_undo, replay_queue, replay_queue',
                   undo_stack, undo_stack')]_vars

\* An undo marker has been recorded behind a direct action.
C4_Witness ==
    /\ op.name = "rt_add_action"
    /\ op.is_undo
    /\ Len(replay_queue) = 2
    /\ replay_queue[1].kind = "PaintAction"
    /\ replay_queue[2].kind = "ReplayTracker"
    /\ replay_queue[2].undo_stack = <<op.action>>
    /\ Len(undo_stack) >= 1
    /\ undo_stack[Len(undo_stack)] = op.action

(***************************************************************************)
(* C6.  What ReplayTracker.undo returns.                                   *)
(***************************************************************************)
\* C6: ReplayTracker.undo returns a boolean: True when there was nothing to
\* undo, False when an action was undone.
C6_ReplayUndoReturnsBoolean ==
    op.name = "rt_undo" =>
        /\ ret \in {Bool(TRUE), Bool(FALSE)}
        /\ (ret = Bool(TRUE)) <=> (calls = <<>>)


(***************************************************************************)
(* C11.  draw_style selects the cells' LayerStore variant.                 *)
(***************************************************************************)
\* The LayerStore class each draw style stands for.
StoreVariant(style) ==
    CASE style = "SET" -> "SetLayerStore"
      [] style = "ADD" -> "AdditiveLayerStore"
      [] style = "SEQUENCE" -> "SequenceLayerStore"

\* C11: for each draw_style among SET, ADD and SEQUENCE, every cell of the
\* constructed Grid holds a LayerStore of the class that draw_style selects.
C11_CellsHoldSelectedVariant ==
    (made /\ draw_style \in DRAW_STYLE_OPTIONS) =>
        \A c \in DOMAIN grid : grid[c].kind = StoreVariant(draw_style)

(***************************************************************************)
(* C12.  SetLayerStore: add, erase and get_color.                          *)
(***************************************************************************)
\* The store is a SetLayerStore whose colour output is not inverted.
SetNotInverted(store) == store.kind = "SetLayerStore" /\ store.inverts # "True"

\* C12: on a SetLayerStore that is not inverted, add and erase return True;
\* a get_color(start, t, x, y) call that follows add(L) returns L's transform
\* of start with t, x and y, whatever layer was active before the add; one
\* that follows erase(M), for any layer M, returns start.
C12_SetStoreAddEraseGetColor ==
    [][SetNotInverted(layer_store) =>
          /\ op'.name \in {"add", "erase"} => ret' = Bool(TRUE)
          /\ (op.name = "add" /\ op'.name = "get_color") =>
                 ret' = Layer_apply(op.layer, op'.start, op'.timestamp, op'.x, op'.y)
          /\ (op.name = "erase" /\ op'.name = "get_color") => ret' = op'.start]_vars

\* add(L) has just replaced another active layer on a store that is not
\* inverted: add returned True and the colour of the store is now L's
\* transform of the start colour alone.
C12_Witness ==
    /\ layer_store # None
    /\ SetNotInverted(layer_store)
    /\ op.name = "add"
    /\ ret = Bool(TRUE)
    /\ hist.mode = "store"
    /\ hist.before.array_sorted = Layer(1)
    /\ op.layer = Layer(2)
    /\ SetLayerStore_get_color(layer_store, StartColor("start"), 1, 7, 3)
           = Layer_apply(Layer(2), StartColor("start"), 1, 7, 3)

(***************************************************************************)
(* C13.  AdditiveLayerStore.get_color composes in insertion order and      *)
(* leaves the stored sequence as it was.                                   *)
(***************************************************************************)
\* The left fold of the layers' transforms onto a colour.
RECURSIVE FoldTransforms(_, _, _, _, _)
FoldTransforms(layers, color, timestamp, x, y) ==
    IF layers = <<>>
    THEN color
    ELSE FoldTransforms(Tail(layers), Layer_apply(Head(layers), color, timestamp, x, y),
                        timestamp, x, y)

IsAdditive(store) == store.kind = "AdditiveLayerStore"

\* C13: on an AdditiveLayerStore, add puts the layer behind the stored ones
\* (while there is room); get_color returns the fold of the stored layers'
\* transforms onto start, oldest first, and leaves the stored sequence and
\* its order unchanged; a get_color call repeated with the same arguments
\* returns the same colour.
C13_AdditiveGetColorFoldsInOrder ==
    [][IsAdditive(layer_store) =>
          /\ (op'.name = "add" /\ Len(layer_store.layers) < AdditiveCapacity) =>
                 layer_store'.layers = Append(layer_store.layers, op'.layer)
          /\ op'.name = "get_color" =>
                 /\ ret' = FoldTransforms(layer_store.layers, op'.start, op'.timestamp,
                                          op'.x, op'.y)
                 /\ layer_store'.layers = layer_store.layers
          /\ (op.name = "get_color" /\ op' = op) => ret' = ret]_vars

\* A store holding Layer(2) then Layer(1) has answered get_color: Layer(2)'s
\* transform first, Layer(1)'s on top of it, and the store is as before.
C13_Witness ==
    /\ layer_store # None
    /\ IsAdditive(layer_store)
    /\ op.name = "get_color"
    /\ layer_store.layers = <<Layer(2), Layer(1)>>
    /\ ret = Layer_apply(Layer(1),
                         Layer_apply(Layer(2), op.start, op.timestamp, op.x, op.y),
                         op.timestamp, op.x, op.y)
    /\ hist.mode = "store"
    /\ hist.before # None
    /\ hist.before.layers = layer_store.layers

(***************************************************************************)
(* C14.  AdditiveLayerStore.special reverses the stored sequence.          *)
(***************************************************************************)
\* C14: special() on an AdditiveLayerStore leaves the stored sequence
\* reversed: the same length, the same layers, the oldest now the newest, so
\* that get_color composes them in the opposite order.
C14_AdditiveSpecialReverses ==
    [][(IsAdditive(layer_store) /\ op'.name = "special") =>
          /\ layer_store'.layers = Reverse(layer_store.layers)
          /\ Len(layer_store'.layers) = Len(layer_store.layers)
          /\ \A layer \in AllLayers :
                 Cardinality({q \in DOMAIN layer_store'.layers : layer_store'.layers[q] = layer})
                     = Cardinality({q \in DOMAIN layer_store.layers : layer_store.layers[q] = layer})
          /\ \A start \in Starts, timestamp \in Timestamps, x \in Xs, y \in Ys :
                 \A r \in AdditiveLayerStore_get_color(layer_store', start, timestamp, x, y) :
                     r.ret = FoldTransforms(Reverse(layer_store.layers), start, timestamp, x, y)]_vars

\* special() has run on the store left by add(Layer(1)); add(Layer(2)): the
\* store holds Layer(2) then Layer(1).
C14_Witness ==
    /\ layer_store # None
    /\ IsAdditive(layer_store)
    /\ op.name = "special"
    /\ hist.mode = "store"
    /\ hist.before # None
    /\ hist.before.layers = <<Layer(1), Layer(2)>>
    /\ layer_store.layers = <<Layer(2), Layer(1)>>

(***************************************************************************)
(* C15.  SequenceLayerStore.special un-applies the layer of median name.   *)
(***************************************************************************)
IsSequence(store) == store.kind = "SequenceLayerStore"

\* The ordinals of the layers get_color applies: those with a slot whose
\* value is True.
Applied(store) ==
    {store.array_sorted_list[q].key :
        q \in {q \in DOMAIN store.array_sorted_list : store.array_sorted_list[q].value}}

\* The layer of median name among the applied ones: the one with
\* (k + 1) div 2 - 1 applied names before its own, k being their number (the
\* exact middle for odd k, the smaller of the two central names for even k).
MedianByName(S) ==
    CHOOSE i \in S :
        Cardinality({j \in S : NameRank(LAYERS[j]) < NameRank(LAYERS[i])})
            = (Cardinality(S) + 1) \div 2 - 1

\* C15: special() on a SequenceLayerStore with at least one applied layer
\* un-applies the applied layer of median name and no other.
C15_SequenceSpecialUnappliesMedian ==
    [][(IsSequence(layer_store) /\ op'.name = "special" /\ Applied(layer_store) # {}) =>
          /\ ret' = None
          /\ Applied(layer_store') = Applied(layer_store) \ {MedianByName(Applied(layer_store))}]_vars

(***************************************************************************)
(* C16.  erase on an empty AdditiveLayerStore.                             *)
(***************************************************************************)
\* C16: erase on an AdditiveLayerStore that holds no layer raises no error,
\* leaves the store empty and returns False.
C16_AdditiveEraseOnEmptyIsNoOp ==
    [][(IsAdditive(layer_store) /\ op'.name = "erase" /\ layer_store.layers = <<>>) =>
          /\ ret' = Bool(FALSE)
          /\ layer_store'.layers = <<>>]_vars

C18_SequenceOneSlotPerLayer ==
    IsSequence(layer_store) =>
        /\ Len(layer_store.array_sorted_list) = Len(LAYERS)
        /\ \A q \in DOMAIN layer_store.array_sorted_list :
               layer_store.array_sorted_list[q].key = q

(***************************************************************************)
(* C19.  The applied layers of a SequenceLayerStore under add and erase.   *)
(***************************************************************************)
\* C19: after any sequence of add and erase calls on a SequenceLayerStore,
\* the layers get_color applies are exactly the layers whose most recent call
\* was add; no add or erase call raises an error and each returns True.
C19_SequenceAppliedIsLastAdded ==
    (IsSequence(layer_store) /\ hist.mode = "edits") =>
        /\ Applied(layer_store) = {i \in DOMAIN hist.last : hist.last[i] = "add"}
        /\ op.name \in {"add", "erase"} => ret = Bool(TRUE)

(***************************************************************************)
(* C20.  SequenceLayerStore.get_color.                                     *)
(***************************************************************************)
\* The applied layers of the store in the order of its slots.
RECURSIVE AppliedLayers(_)
AppliedLayers(list) ==
    IF list = <<>>
    THEN <<>>
    ELSE IF Head(list).value
         THEN <<Layer(Head(list).key)>> \o AppliedLayers(Tail(list))
         ELSE AppliedLayers(Tail(list))

\* C20: get_color(start, t, x, y) on a SequenceLayerStore returns the left
\* fold of the applied layers' transforms onto start, in ascending order of
\* ordinal, each transform receiving the caller's t, x and y; slots that are
\* not applied are skipped and the store is unchanged.
C20_SequenceGetColorFoldsApplied ==
    [][(IsSequence(layer_store) /\ op'.name = "get_color") =>
          /\ ret' = FoldTransforms(AppliedLayers(layer_store.array_sorted_list),
                                   op'.start, op'.timestamp, op'.x, op'.y)
          /\ layer_store' = layer_store]_vars

(***************************************************************************)
(* C21.  SequenceLayerStore.special with no applied layer.                 *)
(***************************************************************************)
\* C21: special() on a SequenceLayerStore with no applied layer raises no
\* error and leaves every slot as it was.
C21_SequenceSpecialOnNoneAppliedIsNoOp ==
    [][(IsSequence(layer_store) /\ op'.name = "special" /\ Applied(layer_store) = {}) =>
          /\ ret' = None
          /\ layer_store' = layer_store]_vars

(***************************************************************************)
(* C22.  add of the removed layer undoes SequenceLayerStore.special.       *)
(***************************************************************************)
\* The colours get_color may return on the store, for the arguments given.
Colors(store, start, timestamp, x, y) ==
    {r.ret : r \in LayerStore_get_color(store, start, timestamp, x, y)}

\* Two stores answer every get_color call alike.
SameColors(s1, s2) ==
    \A start \in Starts, timestamp \in Timestamps, x \in Xs, y \in Ys :
        Colors(s1, start, timestamp, x, y) = Colors(s2, start, timestamp, x, y)

\* C22: when special() has un-applied a layer R of a SequenceLayerStore with
\* at least one applied layer, a following add(R) brings back the store of
\* before the special(): the same applied layers and the same get_color
\* result for all arguments.
C22_SequenceAddUndoesSpecial ==
    [][(IsSequence(layer_store) /\ hist.mode = "store"
            /\ op.name = "special" /\ ret = None
            /\ op'.name = "add"
            /\ Applied(hist.before) \ Applied(layer_store) = {op'.layer.index}) =>
          /\ ret' = Bool(TRUE)
          /\ Applied(layer_store') = Applied(hist.before)
          /\ SameColors(layer_store', hist.before)]_vars

(***************************************************************************)
(* C23.  Inversion of a SetLayerStore.                                     *)
(***************************************************************************)
IsSet(store) == store.kind = "SetLayerStore"

\* The colour output of the store is inverted.
Inverted(store) == store.inverts = "True"

\* C23: a new SetLayerStore is not inverted and each special() toggles the
\* inversion; get_color returns start when there is no active layer, whether
\* inverted or not, and with an active layer L its transform of start, with
\* the channels complemented to 255 when the store is inverted.
C23_SetStoreInversion ==
    [][IsSet(layer_store) =>
          /\ op.name = "LayerStore" => ~Inverted(layer_store)
          /\ op'.name = "special" => (Inverted(layer_store') <=> ~Inverted(layer_store))
          /\ op'.name = "get_color" =>
                 ret' = IF layer_store.array_sorted = None
                        THEN op'.start
                        ELSE IF Inverted(layer_store)
                             THEN Invert(Layer_apply(layer_store.array_sorted, op'.start,
                                                     op'.timestamp, op'.x, op'.y))
                             ELSE Layer_apply(layer_store.array_sorted, op'.start,
                                              op'.timestamp, op'.x, op'.y)]_vars

\* An inverted store with an active layer has answered get_color right after
\* the special() that inverted it.
C23_Witness ==
    /\ layer_store # None
    /\ IsSet(layer_store)
    /\ Inverted(layer_store)
    /\ layer_store.array_sorted = Layer(2)
    /\ op.name = "get_color"
    /\ ret = Invert(Layer_apply(Layer(2), op.start, op.timestamp, op.x, op.y))
    /\ hist.mode = "store"
    /\ hist.prev.name = "special"
    /\ ~Inverted(hist.before2)

(***************************************************************************)
(* C24.  special is its own inverse on SetLayerStore and                   *)
(* AdditiveLayerStore.                                                     *)
(***************************************************************************)
\* C24: on a SetLayerStore or an AdditiveLayerStore in any reachable state,
\* the second of two consecutive special() calls leaves a store that answers
\* every get_color call as the store before the first one did; on an
\* AdditiveLayerStore the stored order is again exactly what it was.
C24_SpecialTwiceIsIdentity ==
    [][((IsSet(layer_store) \/ IsAdditive(layer_store)) /\ hist.mode = "store"
            /\ op.name = "special" /\ op'.name = "special") =>
          /\ SameColors(layer_store', hist.before)
          /\ IsAdditive(layer_store) => layer_store'.layers = hist.before.layers]_vars

\* special() has run twice in a row on an AdditiveLayerStore holding Layer(1)
\* then Layer(2): reversed in between, as at the start now.
C24_Witness ==
    /\ layer_store # None
    /\ IsAdditive(layer_store)
    /\ op.name = "special"
    /\ hist.mode = "store"
    /\ hist.prev.name = "special"
    /\ hist.before2 # None
    /\ hist.before2.layers = <<Layer(1), Layer(2)>>
    /\ hist.before.layers = <<Layer(2), Layer(1)>>
    /\ layer_store.layers = <<Layer(1), Layer(2)>>

(***************************************************************************)
(* C25.  erase on a non-empty AdditiveLayerStore.                          *)
(***************************************************************************)
\* C25: erase(M) on an AdditiveLayerStore that holds at least one layer
\* removes the oldest stored layer, whatever layer M is, keeps the others in
\* their order and returns True.
C25_AdditiveEraseRemovesHead ==
    [][(IsAdditive(layer_store) /\ op'.name = "erase" /\ layer_store.layers # <<>>) =>
          /\ layer_store'.layers = Tail(layer_store.layers)
          /\ ret' = Bool(TRUE)]_vars

\* erase has been called with a layer that is not the oldest one, on a store
\* of at least two layers: the oldest is gone, the others are left in order.
C25_Witness ==
    /\ layer_store # None
    /\ IsAdditive(layer_store)
    /\ op.name = "erase"
    /\ ret = Bool(TRUE)
    /\ hist.mode = "store"
    /\ hist.before # None
    /\ Len(hist.before.layers) >= 2
    /\ op.layer # Head(hist.before.layers)
    /\ Head(hist.before.layers) # hist.before.layers[Len(hist.before.layers)]
    /\ layer_store.layers = Tail(hist.before.layers)

(***************************************************************************)
(* C27.  The auxiliary queue of an AdditiveLayerStore.                     *)
(***************************************************************************)
\* C27: between the calls made on an AdditiveLayerStore temp_queue is empty,
\* so that layers holds every stored layer, and the swap at the end of
\* get_color hands back a layers queue with the same layers in the same
\* order.
C27_AdditiveTempQueueEmpty ==
    [][IsAdditive(layer_store) =>
          /\ layer_store.temp_queue = <<>>
          /\ layer_store'.temp_queue = <<>>
          /\ op'.name = "get_color" => layer_store'.layers = layer_store.layers]_vars

\* get_color has run twice in a row on a store of three layers, not all the
\* same: temp_queue is empty and layers is as before both calls.
C27_Witness ==
    /\ layer_store # None
    /\ IsAdditive(layer_store)
    /\ op.name = "get_color"
    /\ hist.mode = "store"
    /\ hist.prev.name = "get_color"
    /\ hist.before2 # None
    /\ Len(layer_store.layers) = 3
    /\ layer_store.layers[1] # layer_store.layers[3]
    /\ hist.before2.layers = layer_store.layers
    /\ layer_store.temp_queue = <<>>

C28_PlayLeavesOwnUndoTracker ==
    [][op'.name = "play_next_action" =>
          /\ undo_stack' = undo_stack
          /\ redo_stack' = redo_stack
          /\ UndoTracker_undo(undo_stack', grid').ret = UndoTracker_undo(undo_stack, grid).ret]_vars

\* An undo marker has been played while the player's own undo stack held
\* actions: the stack still holds them.
C28_Witness ==
    /\ op.name = "play_next_action"
    /\ ret = Bool(FALSE)
    /\ Len(calls) = 1
    /\ calls[1].method = "undo_apply"
    /\ Len(undo_stack) >= 2
    /\ hist.mode = "replay"
    /\ hist.played = 2
====
